---- MODULE Spec2Model ----
(***************************************************************************)
(* A model of the mutation/observation core of tools/graph_visualizer.py:  *)
(* the entity list of the GraphVisualizer, the background_updater thread   *)
(* (the engine tick), process_prompt (ingestion), get_entities and         *)
(* get_all_nodes (bulk reads), load_real_data behind /api/refresh, and the *)
(* update_queue with the /api/stream-updates generators (feed).            *)
(*                                                                         *)
(* Numbers.  Time is in whole seconds.  strain_amplitude and               *)
(* node_resistance are fixed-point hundredths (50 is 0.50), and so is      *)
(* gravitational_mass (330 is 3.30); products are truncated towards zero.  *)
(*                                                                         *)
(* Entities.  An entity dict is a function from the keys it has to their   *)
(* values, so "key in entity" is membership in its DOMAIN.  An id is the   *)
(* sequence of the parts of its string: 'word_cat_7' is <<"word","cat",7>>.*)
(*                                                                         *)
(* Threads.  The updater thread, every request handler and every stream    *)
(* generator run concurrently with no lock around the entity list, so an   *)
(* action is one write of shared state together with the reads and the     *)
(* thread-local computation that lead to it.  queue.Queue operations are   *)
(* atomic (the queue's own mutex).  A refresh binds visualizer.entities to *)
(* a new list: a loop that is iterating the old list goes on over the old  *)
(* list, whose dicts no reader can reach any more.                         *)
(*                                                                         *)
(* Scope.  The agents list is disjoint from the entity list and is not     *)
(* modelled, nor is musical_frequency.  The loop of process_prompt over    *)
(* candidate relationships only fills its response and is part of the step *)
(* that ends the loop over words.                                          *)
(***************************************************************************)
EXTENDS Integers, Sequences, FiniteSets, TLC

\* ------------------------------------------------------------- bounds
MaxTime == 4
MaxFeedTime == 2
MaxReceivers == 3
MaxListeners == 2
BacklogBound == 1
MaxPrompts == 1
MaxHeartbeats == 1
\* request handlers of /api/process-prompt that may run at the same time
MaxHandlers == 2
\* the runs that follow two concurrent ingestion calls
MaxRacePrompts == 2
MaxRaceTime == 1
\* the runs that follow a refresh
MaxRefreshes == 1
MaxRefreshTime == 2
\* the runs that follow one tick over drawn entities
MaxTickTime == 3
MaxCount == 3
\* the runs that follow one ingestion call over new words
MaxIngestTime == 2
\* the runs that follow bulk reads with every filter
MaxReadTime == 2
\* the runs of the engine over a store with a record it cannot convert
MaxFaultTime == 9
\* the runs that follow what the batches of the feed hold
MaxContentTime == 4
\* the runs of ingestion over a store of six entities
MaxSliceTime == 1

\* ---------------------------------------------------------- constants
\* time.sleep(2) at the head of every pass of background_updater
TickInterval == 2
\* queue.Queue() is built with the default maxsize, 0: no capacity limit
maxsize == 0
\* process_prompt looks at visualizer.entities[:5]
StrainSlice == 5
\* time.sleep(5) in the except clause of background_updater
ErrorSleep == 5
\* stands for an access_count that int() rejects, such as a JSON null
NoneValue == -1

VARIABLES
    now,            \* time.time()
    horizon,        \* the time up to which the run is followed
    prompts,        \* the prompts clients post in the run
    queries,        \* the bulk-read requests clients make in the run
    traced,         \* whether the run keeps the history (e_start, snapshots)
    entities,       \* visualizer.entities: the list of entity dicts
    relationships,  \* visualizer.relationships: the list of relationship dicts
    update_queue,   \* the process-wide queue.Queue of batches
    pubCount,       \* number of put() calls so far; numbers the batches
    statusAt,       \* history: statusAt[s] = status when batch s was put
    e_pc, e_i, e_time, e_wake,            \* background_updater: position, locals
    e_old,          \* 0, or the length of the replaced list its loop still iterates
    e_start,        \* history: the length of the list when the pass began, 0 in no pass
    p_pc, p_words, p_i, p_time, p_found, p_ac, p_n,  \* process_prompt, per handler
    p_old,          \* per handler: its existing_entity or slice is of a replaced list
    p_left,         \* ingestion calls the run still follows
    r_pc, r_i, r_time,  \* load_real_data behind /api/refresh: position, locals
    r_left,         \* refreshes the run still follows
    status, received,   \* stream generators, one per connection
    lastRead,       \* the list a bulk read returns in this step, else <<>>
    lastQuery       \* the request of that bulk read, else <<>>

runVars     == <<horizon, prompts, queries, traced>>
engineVars  == <<e_pc, e_i, e_time, e_wake, e_old, e_start>>
promptVars  == <<p_pc, p_words, p_i, p_time, p_found, p_ac, p_n, p_old, p_left>>
refreshVars == <<r_pc, r_i, r_time, r_left>>
feedVars    == <<status, received>>
busVars     == <<update_queue, pubCount, statusAt>>
vars == <<now, runVars, entities, relationships, busVars, engineVars, promptVars, refreshVars,
          feedVars, lastRead, lastQuery>>

Receivers == 1..MaxReceivers
\* the connections of the runs that follow heartbeats
Listeners == 1..MaxListeners
\* the threads Flask serves /api/process-prompt with
Handlers == 1..MaxHandlers

Max(a, b) == IF a >= b THEN a ELSE b
Min(a, b) == IF a <= b THEN a ELSE b

\* ------------------------------------------------------------- dicts
\* key in entity
Has(entity, key) == key \in DOMAIN entity

\* entity[key] = value
With(entity, key, value) ==
    [k \in DOMAIN entity \cup {key} |-> IF k = key THEN value ELSE entity[k]]

\* del entity[key]
Without(entity, key) == [k \in DOMAIN entity \ {key} |-> entity[k]]

\* if key not in entity: entity[key] = value
SetDefault(entity, key, value) ==
    IF Has(entity, key) THEN entity ELSE With(entity, key, value)

\* ------------------------------------------------------ pure functions

\* time_factor = 1.0 + (1.0 / max(time_since_access, 1.0)), in hundredths
time_factor(time_since_access) == 100 + (100 \div Max(time_since_access, 1))

\* new_mass = 1.0 * access_count * time_factor
new_massStale(access_count, time_since_access) == access_count * 100
new_mass(access_count, time_since_access) ==
    access_count * time_factor(time_since_access)

\* random.uniform(0.1, 0.2), in hundredths
Dissonances == {15}

\* current_strain + dissonance
ContradictFaulty(strain, dissonance) == strain - dissonance
Contradict(strain, dissonance) == strain + dissonance

\* max(0.0, current_strain * 0.98)
DecayFaulty(strain) == strain
Decay(strain) == Max(0, (strain * 98) \div 100)

\* str.lower() on the words the model uses
Lower(w) ==
    CASE w = "The"     -> "the"
      [] w = "Theorem" -> "theorem"
      [] w = "N0"      -> "n0"
      [] w = "Pythagorean" -> "pythagorean"
      [] w = "Ponens"      -> "ponens"
      [] w = "Quantum"     -> "quantum"
      [] w = "Einstein"    -> "einstein"
      [] OTHER         -> w

StopWordsShort == {"a", "an", "and", "or", "but", "in", "on", "at", "to",
                   "for", "of", "with", "by"}
StopWords == {"the", "a", "an", "and", "or", "but", "in", "on", "at", "to",
              "for", "of", "with", "by"}

\* prompt.lower().split(): the prompt is given as its whitespace-separated words
LowerSplit(prompt) == [k \in 1..Len(prompt) |-> Lower(prompt[k])]

\* the prompts a client may post
Prompts == { <<"The", "Theorem">>, <<"cat", "Theorem">> }

\* prompts of new words: a stop word, a word twice, the name of an entity
NewWordPrompts == { <<"the", "cat", "sat">>, <<"cat", "Theorem", "cat">> }

\* what a client may pass as strain_threshold: nothing (None, the empty
\* sequence here) or one number of hundredths
Thresholds == {<<>>, <<0>>, <<10>>}

\* what a client may pass as entity_type: nothing, or one type
EntityTypes == {<<>>, <<"concept_type">>}

\* the requests for /api/entities: <<strain_threshold, entity_type>>
ThresholdQueries == {<<<<>>, <<>>>>, <<<<10>>, <<>>>>}
Queries == Thresholds \X EntityTypes

\* the index of the first entity whose lower-cased name is word, 0 if none
FindByNameFaulty(ents, word) == IF Len(ents) >= 1 THEN 1 ELSE 0
FindByName(ents, word) ==
    IF \E k \in 1..Len(ents) : Lower(ents[k].name) = word
    THEN CHOOSE k \in 1..Len(ents) :
            /\ Lower(ents[k].name) = word
            /\ \A j \in 1..(k - 1) : Lower(ents[j].name) # word
    ELSE 0

\* the dict process_prompt builds for a word it has not seen
NewEntity(word, t) ==
    [ id |-> <<"word", word, t>>, name |-> word, entity_type |-> "concept_type",
      strain_amplitude |-> 0, node_resistance |-> 0,
      gravitational_mass |-> 100, access_count |-> 1, last_accessed |-> t ]

\* migrate_entities_to_new_structure, for one entity
Migrate(entity, current_time) ==
    LET e1 == IF Has(entity, "strain_resistance") /\ ~Has(entity, "node_resistance")
              THEN Without(With(entity, "node_resistance", entity.strain_resistance),
                           "strain_resistance")
              ELSE entity
        e2 == SetDefault(e1, "gravitational_mass", 100)
        e3 == SetDefault(e2, "last_accessed", current_time)
        e4 == SetDefault(e3, "strain_amplitude", 0)
    IN  SetDefault(e4, "access_count", 1)

\* "Initialize missing fields for gravity calculations", at the head of the
\* updater's pass over one entity
DefaultsFaulty(entity, current_time) ==
    With(SetDefault(Migrate(entity, current_time), "node_resistance", 0),
         "id", <<"tick", current_time>>)
Defaults(entity, current_time) ==
    LET e1 == SetDefault(entity, "gravitational_mass", 100)
        e2 == SetDefault(e1, "last_accessed", current_time)
        e3 == SetDefault(e2, "access_count", 1)
        e4 == SetDefault(e3, "strain_amplitude", 0)
    IN  SetDefault(e4, "node_resistance", 0)

\* Queue.put blocks only while the queue is full, which needs maxsize > 0
FullBounded(q) == Len(q) >= 1
Full(q) == maxsize > 0 /\ Len(q) >= maxsize

\* the generators that are inside their while loop
Active == {r \in Receivers : status[r] = "active"}

\* history: the values of the entities when a batch that refers to the
\* entity list is put, in the runs that keep the history
Snapshot(type) == IF traced /\ type = "update" THEN entities ELSE <<>>

\* update_queue.put(batch); the 'data' of an 'update' batch is a reference to
\* the entity list, which the model need not store
PutTwice(type, timestamp) ==
    /\ ~Full(update_queue)
    /\ pubCount' = pubCount + 2
    /\ update_queue' = update_queue \o
            << [type |-> type, timestamp |-> timestamp, seq |-> pubCount + 1,
                snapshot |-> Snapshot(type)],
               [type |-> type, timestamp |-> timestamp, seq |-> pubCount + 2,
                snapshot |-> Snapshot(type)] >>
    /\ statusAt' = statusAt \o <<status, status>>
Put(type, timestamp) ==
    /\ ~Full(update_queue)
    /\ pubCount' = pubCount + 1
    /\ update_queue' = Append(update_queue,
            [type |-> type, timestamp |-> timestamp, seq |-> pubCount + 1,
             snapshot |-> Snapshot(type)])
    /\ statusAt' = Append(statusAt, status)

\* data.get('relationships', []) of the JSON file next to the program
KnowledgeRelationships ==
    << [ id |-> <<"auth", "engineer", "theorem">>, from |-> <<"engineer">>,
         to |-> <<"theorem">>, type |-> "has_authority", authority_strength |-> 90,
         strain_amplitude |-> 72 ] >>

\* ---------------------------------------------------------------- Init
\* everything but the loaded entities and the extent of the run
InitRest ==
    /\ now = 0
    /\ update_queue = <<>>
    /\ pubCount = 0
    /\ statusAt = <<>>
    /\ e_pc = "sleep" /\ e_i = 0 /\ e_time = 0 /\ e_wake = 0 /\ e_old = 0
    /\ e_start = 0
    /\ relationships = KnowledgeRelationships
    /\ p_pc = [h \in Handlers |-> "idle"]
    /\ p_words = [h \in Handlers |-> <<>>]
    /\ p_i = [h \in Handlers |-> 0]
    /\ p_time = [h \in Handlers |-> 0]
    /\ p_found = [h \in Handlers |-> 0]
    /\ p_ac = [h \in Handlers |-> 0]
    /\ p_n = [h \in Handlers |-> 0]
    /\ p_old = [h \in Handlers |-> FALSE]
    /\ r_pc = "idle" /\ r_i = 0 /\ r_time = 0
    /\ status = [r \in Receivers |-> "none"]
    /\ received = [r \in Receivers |-> <<>>]
    /\ lastRead = <<>>
    /\ lastQuery = <<>>

\* an entity of the knowledge file that carries the new field names
TheoremEntity ==
    [ id |-> <<"theorem">>, name |-> "Theorem", entity_type |-> "concept_type",
      strain_amplitude |-> 0, node_resistance |-> 0,
      gravitational_mass |-> 100, access_count |-> 3, last_accessed |-> 0 ]

\* an entity of the knowledge file that carries the old field names
N0Stored ==
    [ id |-> <<"n0">>, name |-> "N0", entity_type |-> "person",
      strain_amplitude |-> 50, strain_resistance |-> 50, access_count |-> 3 ]

\* the same entity once the constructor has migrated it, at time 0
N0Entity == Migrate(N0Stored, 0)

\* data.get('entities', []) of the JSON file next to the program; the program
\* never writes the file
KnowledgeFile == <<TheoremEntity, N0Stored>>

\* a knowledge file with two entities has been loaded
Init ==
    /\ entities = <<TheoremEntity, N0Entity>>
    /\ horizon = MaxTime /\ prompts = Prompts /\ queries = ThresholdQueries
    /\ traced = FALSE
    /\ p_left = MaxPrompts /\ r_left = 0
    /\ InitRest

\* a knowledge file with one entity has been loaded
InitFeed ==
    /\ entities = <<TheoremEntity>>
    /\ horizon = MaxFeedTime /\ prompts = Prompts /\ queries = {} /\ traced = FALSE
    /\ p_left = MaxPrompts /\ r_left = 0
    /\ InitRest

\* one entity, and two ingestion calls to come
InitRace ==
    /\ entities = <<TheoremEntity>>
    /\ horizon = MaxRaceTime /\ prompts = Prompts /\ queries = {} /\ traced = FALSE
    /\ p_left = MaxRacePrompts /\ r_left = 0
    /\ InitRest

\* one entity, and an ingestion call of new words to come
InitIngest ==
    /\ entities = <<TheoremEntity>>
    /\ horizon = MaxIngestTime /\ prompts = NewWordPrompts /\ queries = {} /\ traced = FALSE
    /\ p_left = MaxPrompts /\ r_left = 0
    /\ InitRest

\* two entities, and bulk reads with every filter to come
InitRead ==
    /\ entities = <<TheoremEntity, N0Entity>>
    /\ horizon = MaxReadTime /\ prompts = Prompts /\ queries = Queries /\ traced = FALSE
    /\ p_left = MaxPrompts /\ r_left = 0
    /\ InitRest

\* the two entities of the knowledge file, and a refresh to come
InitRefresh ==
    /\ entities = <<TheoremEntity, N0Entity>>
    /\ horizon = MaxRefreshTime /\ prompts = {<<"cat", "Theorem">>}
    /\ queries = {<<<<>>, <<>>>>} /\ traced = FALSE
    /\ p_left = MaxPrompts /\ r_left = MaxRefreshes
    /\ InitRest

\* what an entity's access_count and last_accessed may be when a tick finds it
Counts == 0..MaxCount
LastAccesses == {-8, -1, 0, 2, 3}

\* one entity with a drawn access_count and last_accessed
InitTick ==
    /\ \E n \in Counts : \E t \in LastAccesses :
          entities = <<[N0Entity EXCEPT !.access_count = n, !.last_accessed = t]>>
    /\ horizon = MaxTickTime /\ prompts = {} /\ queries = {} /\ traced = FALSE
    /\ p_left = 0 /\ r_left = 0
    /\ InitRest

\* an entity of the knowledge file with the given name and strain_amplitude
SampleEntity(name, amplitude) ==
    [ id |-> <<Lower(name)>>, name |-> name, entity_type |-> "concept_type",
      strain_amplitude |-> amplitude, node_resistance |-> amplitude,
      gravitational_mass |-> 100, access_count |-> 1, last_accessed |-> 0 ]

\* a store of more entities than process_prompt's strain loop looks at
SliceFile ==
    << TheoremEntity, N0Entity, SampleEntity("Pythagorean", 10),
       SampleEntity("Ponens", 0), SampleEntity("Quantum", 72),
       SampleEntity("Einstein", 30) >>

\* the prompts posted to that store: a new word, and names at its two ends
SlicePrompts == { <<"cat", "Theorem">>, <<"The", "Einstein">> }

\* six entities, and one ingestion call to come
InitSlice ==
    /\ entities = SliceFile
    /\ horizon = MaxSliceTime /\ prompts = SlicePrompts /\ queries = {} /\ traced = FALSE
    /\ p_left = MaxPrompts /\ r_left = 0
    /\ InitRest

\* an entity of the knowledge file whose access_count is null
NullCountEntity == [SampleEntity("Ponens", 30) EXCEPT !.access_count = NoneValue]

\* the knowledge files of the runs with a record int() rejects: at the head
\* of the list, at its end, and in no place
FaultFiles ==
    { <<NullCountEntity, N0Entity>>, <<N0Entity, NullCountEntity>>,
      <<TheoremEntity, N0Entity>> }

\* two entities, one of which may make int() raise, and the engine alone
InitFault ==
    /\ entities \in FaultFiles
    /\ horizon = MaxFaultTime /\ prompts = {} /\ queries = {} /\ traced = FALSE
    /\ p_left = 0 /\ r_left = 0
    /\ InitRest

\* one entity under strain, the engine and the live feed, and the history kept
InitContent ==
    /\ entities = <<N0Entity>>
    /\ horizon = MaxContentTime /\ prompts = {} /\ queries = {} /\ traced = TRUE
    /\ p_left = 0 /\ r_left = 0
    /\ InitRest

\* one entity, an ingestion call of new words to come, and the history kept
InitVisit ==
    /\ entities = <<TheoremEntity>>
    /\ horizon = MaxIngestTime /\ prompts = NewWordPrompts /\ queries = {} /\ traced = TRUE
    /\ p_left = MaxPrompts /\ r_left = 0
    /\ InitRest

\* the response of a bulk read is handed to its client within the step that
\* builds it; no other step has one
NoResponse == lastRead' = <<>> /\ lastQuery' = <<>>

\* --------------------------------------------------------------- clock
ClockTick ==
    /\ now < horizon
    /\ now' = now + 1
    /\ UNCHANGED <<runVars, relationships, entities, busVars, engineVars, promptVars, refreshVars,
                   feedVars>>
    /\ NoResponse

\* ------------------------------------------------- background_updater
\* the length of the list the updater's for loop iterates
e_len == IF e_old = 0 THEN Len(entities) ELSE e_old

\* time.sleep(2); current_time = time.time(); the for loop takes its first entity
background_updater_wake ==
    /\ e_pc = "sleep"
    /\ now >= e_wake + TickInterval
    /\ e_time' = now
    /\ e_i' = 1
    /\ e_pc' = IF Len(entities) >= 1 THEN "mass" ELSE "publish"
    /\ e_start' = IF traced THEN Len(entities) ELSE 0
    /\ UNCHANGED <<now, runVars, relationships, entities, busVars, e_wake, e_old, promptVars,
                   refreshVars, feedVars>>
    /\ NoResponse

\* int(entity['access_count']) raises TypeError or ValueError
Raises(entity) == entity.access_count = NoneValue

\* the missing fields, then entity['gravitational_mass'] = new_mass; an
\* exception of int() leaves the pass for the except clause around it, which
\* prints, sleeps and lets the while loop start the next pass
background_updater_mass ==
    /\ e_pc = "mass"
    /\ IF e_old = 0 /\ Raises(Defaults(entities[e_i], e_time))
       THEN /\ entities' = [entities EXCEPT ![e_i] = Defaults(entities[e_i], e_time)]
            /\ e_pc' = "sleep"
            /\ e_wake' = now + ErrorSleep
            /\ e_start' = 0
       ELSE /\ IF e_old = 0
               THEN LET entity == Defaults(entities[e_i], e_time)
                        time_since_access == e_time - entity.last_accessed
                    IN entities' = [entities EXCEPT ![e_i] =
                          [entity EXCEPT !.gravitational_mass =
                              new_mass(entity.access_count, time_since_access)]]
               ELSE UNCHANGED entities
            /\ e_pc' = "last_accessed"
            /\ UNCHANGED <<e_wake, e_start>>
    /\ UNCHANGED <<now, runVars, relationships, busVars, e_i, e_time, e_old, promptVars,
                   refreshVars, feedVars>>
    /\ NoResponse

\* entity['last_accessed'] = current_time
background_updater_last_accessed ==
    /\ e_pc = "last_accessed"
    /\ IF e_old = 0
       THEN entities' = [entities EXCEPT ![e_i].last_accessed = e_time]
       ELSE UNCHANGED entities
    /\ e_pc' = "resistance"
    /\ UNCHANGED <<now, runVars, relationships, busVars, e_i, e_time, e_wake, e_old, e_start,
                   promptVars,
                   refreshVars, feedVars>>
    /\ NoResponse

\* entity['node_resistance'] = sum([entity['strain_amplitude']])
background_updater_resistance ==
    /\ e_pc = "resistance"
    /\ IF e_old = 0
       THEN entities' = [entities EXCEPT ![e_i].node_resistance =
                            entities[e_i].strain_amplitude]
       ELSE UNCHANGED entities
    /\ e_pc' = "strain"
    /\ UNCHANGED <<now, runVars, relationships, busVars, e_i, e_time, e_wake, e_old, e_start,
                   promptVars,
                   refreshVars, feedVars>>
    /\ NoResponse

\* the strain update of one entity, then the list iterator's next()
background_updater_strain ==
    /\ e_pc = "strain"
    /\ IF e_old = 0
       THEN LET current_strain == entities[e_i].strain_amplitude
            IN IF current_strain > 0
               THEN \/ \E dissonance \in Dissonances :      \* random.random() < 0.05
                         entities' = [entities EXCEPT ![e_i].strain_amplitude =
                                         Contradict(current_strain, dissonance)]
                    \/ entities' = [entities EXCEPT ![e_i].strain_amplitude =
                                         Decay(current_strain)]
               ELSE UNCHANGED entities
       ELSE UNCHANGED entities
    /\ e_i' = e_i + 1
    /\ e_pc' = IF e_i < e_len THEN "mass" ELSE "publish"
    /\ e_old' = IF e_i < e_len THEN e_old ELSE 0
    /\ UNCHANGED <<now, runVars, relationships, busVars, e_time, e_wake, e_start, promptVars,
                   refreshVars,
                   feedVars>>
    /\ NoResponse

\* last_update_time = current_time; update_queue.put({'type': 'update', ...})
background_updater_publish ==
    /\ e_pc = "publish"
    /\ Put("update", e_time)
    /\ e_pc' = "sleep"
    /\ e_wake' = now
    /\ e_start' = 0
    /\ UNCHANGED <<now, runVars, relationships, entities, e_i, e_time, e_old, promptVars,
                   refreshVars, feedVars>>
    /\ NoResponse

\* ----------------------------------- api_process_prompt, process_prompt
\* the loop over words moves on: the next word, or the slice entities[:5]
NextWord(h, ents) ==
    IF p_i[h] < Len(p_words[h])
    THEN /\ p_i' = [p_i EXCEPT ![h] = @ + 1]
         /\ p_pc' = [p_pc EXCEPT ![h] = "lookup"]
         /\ p_n' = p_n
    ELSE /\ p_i' = [p_i EXCEPT ![h] = 1]
         /\ p_n' = [p_n EXCEPT ![h] = Min(StrainSlice, Len(ents))]
         /\ p_pc' = [p_pc EXCEPT ![h] = IF Len(ents) >= 1 THEN "strain" ELSE "publish"]

\* a POST /api/process-prompt with a non-empty prompt enters process_prompt;
\* handler threads are numbered in the order they are taken
api_process_prompt(h) ==
    /\ p_pc[h] = "idle"
    /\ \A g \in Handlers : g < h => p_pc[g] # "idle"
    /\ p_left > 0
    /\ \E prompt \in prompts :
          /\ Len(prompt) > 0
          /\ p_words' = [p_words EXCEPT ![h] = LowerSplit(prompt)]
    /\ p_time' = [p_time EXCEPT ![h] = now]
    /\ p_i' = [p_i EXCEPT ![h] = 1]
    /\ p_pc' = [p_pc EXCEPT ![h] = "lookup"]
    /\ p_left' = p_left - 1
    /\ UNCHANGED <<now, runVars, relationships, entities, busVars, engineVars, p_found, p_ac, p_n,
                   p_old, refreshVars, feedVars>>
    /\ NoResponse

\* the stop-word test, the search for existing_entity, the read of its access_count
process_prompt_lookup(h) ==
    /\ p_pc[h] = "lookup"
    /\ LET word == p_words[h][p_i[h]]
       IN IF word \in StopWords
          THEN /\ NextWord(h, entities)
               /\ UNCHANGED <<p_found, p_ac>>
          ELSE LET found == FindByName(entities, word)
               IN /\ p_found' = [p_found EXCEPT ![h] = found]
                  /\ p_ac' = [p_ac EXCEPT ![h] =
                                IF found > 0 THEN entities[found].access_count ELSE 0]
                  /\ p_pc' = [p_pc EXCEPT ![h] = "apply"]
                  /\ UNCHANGED <<p_i, p_n>>
    /\ UNCHANGED <<now, runVars, relationships, entities, busVars, engineVars, p_words, p_time,
                   p_old, p_left, refreshVars, feedVars>>
    /\ NoResponse

\* existing_entity['access_count'] += 1 and its last_accessed, or the append
process_prompt_apply(h) ==
    /\ p_pc[h] = "apply"
    /\ entities' =
          IF p_found[h] > 0
          THEN IF p_old[h]
               THEN entities
               ELSE [entities EXCEPT ![p_found[h]].access_count = p_ac[h] + 1,
                                     ![p_found[h]].last_accessed = p_time[h]]
          ELSE Append(entities, NewEntity(p_words[h][p_i[h]], p_time[h]))
    /\ NextWord(h, entities')
    /\ p_old' = [p_old EXCEPT ![h] = FALSE]
    /\ UNCHANGED <<now, runVars, relationships, busVars, engineVars, p_words, p_time, p_found, p_ac,
                   p_left, refreshVars, feedVars>>
    /\ NoResponse

\* one entity of visualizer.entities[:5]: new dissonance, or decay
process_prompt_strain(h) ==
    /\ p_pc[h] = "strain"
    /\ IF p_old[h]
       THEN UNCHANGED entities
       ELSE LET old_strain == IF Has(entities[p_i[h]], "strain_amplitude")
                              THEN entities[p_i[h]].strain_amplitude ELSE 0
            IN \/ \E dissonance \in Dissonances :          \* random.random() < 0.05
                     entities' = [entities EXCEPT ![p_i[h]] =
                         With(@, "strain_amplitude", Contradict(old_strain, dissonance))]
               \/ entities' = [entities EXCEPT ![p_i[h]] =
                         With(@, "strain_amplitude", Decay(old_strain))]
    /\ p_i' = [p_i EXCEPT ![h] = @ + 1]
    /\ p_pc' = [p_pc EXCEPT ![h] = IF p_i[h] < p_n[h] THEN "strain" ELSE "publish"]
    /\ p_old' = [p_old EXCEPT ![h] = IF p_i[h] < p_n[h] THEN @ ELSE FALSE]
    /\ UNCHANGED <<now, runVars, relationships, busVars, engineVars, p_words, p_time, p_found, p_ac,
                   p_n, p_left, refreshVars, feedVars>>
    /\ NoResponse

\* update_queue.put({'type': 'prompt_response', 'timestamp': time.time(), ...})
api_process_prompt_publish(h) ==
    /\ p_pc[h] = "publish"
    /\ Put("prompt_response", now)
    /\ p_pc' = [p_pc EXCEPT ![h] = "idle"]
    /\ UNCHANGED <<now, runVars, relationships, entities, engineVars, p_words, p_i, p_time, p_found,
                   p_ac, p_n, p_old, p_left, refreshVars, feedVars>>
    /\ NoResponse

\* ------------------------------------------ api_refresh, load_real_data
\* load_from_json binds self.entities to the list read from the file; the
\* loops that are inside the old list keep it
api_refresh ==
    /\ r_pc = "idle"
    /\ r_left > 0
    /\ entities' = KnowledgeFile
    /\ relationships' = KnowledgeRelationships
    /\ r_left' = r_left - 1
    /\ r_time' = now
    /\ r_i' = 1
    /\ r_pc' = IF Len(KnowledgeFile) >= 1 THEN "migrate" ELSE "idle"
    /\ e_old' = IF e_pc \in {"mass", "last_accessed", "resistance", "strain"} /\ e_old = 0
                THEN Len(entities) ELSE e_old
    /\ p_old' = [h \in Handlers |->
                    \/ p_old[h]
                    \/ p_pc[h] = "apply" /\ p_found[h] > 0
                    \/ p_pc[h] = "strain"]
    /\ UNCHANGED <<now, runVars, busVars, e_pc, e_i, e_time, e_wake, e_start,
                   p_pc, p_words, p_i, p_time, p_found, p_ac, p_n, p_left, feedVars>>
    /\ NoResponse

\* migrate_entities_to_new_structure: one entity of the loop over self.entities
load_from_json_migrate ==
    /\ r_pc = "migrate"
    /\ entities' = [entities EXCEPT ![r_i] = Migrate(@, r_time)]
    /\ r_i' = r_i + 1
    /\ r_pc' = IF r_i < Len(entities) THEN "migrate" ELSE "idle"
    /\ UNCHANGED <<now, runVars, relationships, busVars, engineVars, promptVars, r_time, r_left,
                   feedVars>>
    /\ NoResponse

\* ------------------------------------------------ api_stream_updates
Heartbeats(log) == Cardinality({k \in 1..Len(log) : log[k].type = "heartbeat"})

\* a client opens /api/stream-updates; connections are numbered in order of arrival
api_stream_updates(r) ==
    /\ status[r] = "none"
    /\ \A q \in Receivers : q < r => status[q] # "none"
    /\ status' = [status EXCEPT ![r] = "active"]
    /\ UNCHANGED <<now, runVars, relationships, entities, busVars, engineVars, promptVars,
                   refreshVars, received>>
    /\ NoResponse

\* yield f"data: {json.dumps(update)}\n\n": the message a client is sent
\* json.dumps follows the batch's reference to the entity list, so an 'update'
\* message carries the values the entities have when it is sent
YieldFaulty(update) ==
    [ type |-> "message", seq |-> update.seq,
      entities |-> IF traced /\ update.type = "update" THEN entities ELSE <<>>,
      snapshot |-> update.snapshot ]
Yield(update) ==
    [ type |-> update.type, seq |-> update.seq,
      entities |-> IF traced /\ update.type = "update" THEN entities ELSE <<>>,
      snapshot |-> update.snapshot ]

\* update_queue.get(timeout=5) returns a batch, which the generator yields
generate_update(r) ==
    /\ status[r] = "active"
    /\ update_queue # <<>>
    /\ LET update == Head(update_queue)
       IN received' = [received EXCEPT ![r] = Append(@, Yield(update))]
    /\ update_queue' = Tail(update_queue)
    /\ UNCHANGED <<now, runVars, relationships, entities, pubCount, statusAt, engineVars, promptVars,
                   refreshVars, status>>
    /\ NoResponse

\* the queue is still empty when the timeout expires
TimedOutFaulty(q) == TRUE
TimedOut(q) == q = <<>>

\* update_queue.get(timeout=5) raises queue.Empty: the generator yields a heartbeat
generate_heartbeat(r) ==
    /\ status[r] = "active"
    /\ TimedOut(update_queue)
    /\ Heartbeats(received[r]) < MaxHeartbeats
    /\ received' = [received EXCEPT ![r] =
                       Append(@, [type |-> "heartbeat", seq |-> 0])]
    /\ UNCHANGED <<now, runVars, relationships, entities, busVars, engineVars, promptVars,
                   refreshVars, status>>
    /\ NoResponse

\* the client goes away and the generator is closed
generate_close(r) ==
    /\ status[r] = "active"
    /\ status' = [status EXCEPT ![r] = "closed"]
    /\ UNCHANGED <<now, runVars, relationships, entities, busVars, engineVars, promptVars,
                   refreshVars, received>>
    /\ NoResponse

\* ---------------------------------------- get_entities, get_all_nodes
\* Python's truth value of the parameter: None and 0.0 are false
Truthy(x) == Len(x) > 0 /\ x[1] # 0

\* Python's truth value of a string parameter: None and '' are false
TruthyStr(x) == Len(x) > 0 /\ x[1] # ""

get_entities(strain_threshold, entity_type) ==
    LET Above(e) == e.strain_amplitude > strain_threshold[1]
        OfType(e) == e.entity_type = entity_type[1]
        byStrain == IF Truthy(strain_threshold)
                    THEN SelectSeq(entities, Above) ELSE entities
    IN  IF TruthyStr(entity_type) THEN SelectSeq(byStrain, OfType) ELSE byStrain

\* GET /api/entities
api_entities ==
    /\ \E query \in queries :
          LET strain_threshold == query[1]
              entity_type == query[2]
          IN /\ lastRead' = get_entities(strain_threshold, entity_type)
             /\ lastQuery' = <<"entities", strain_threshold, entity_type>>
    /\ UNCHANGED <<now, runVars, relationships, entities, busVars, engineVars, promptVars,
                   refreshVars, feedVars>>

\* the entity nodes of get_all_nodes: each dict with the keys the graph adds
get_all_nodes ==
    [k \in 1..Len(entities) |->
        LET entity == entities[k]
            strain == IF Has(entity, "strain_amplitude")
                      THEN entity.strain_amplitude ELSE 0
        IN With(With(With(entity, "type", "entity"), "strain", strain),
                "isAgent", FALSE)]

\* GET /api/graph-data
api_graph_data ==
    /\ lastRead' = get_all_nodes
    /\ lastQuery' = <<"graph-data">>
    /\ UNCHANGED <<now, runVars, relationships, entities, busVars, engineVars, promptVars,
                   refreshVars, feedVars>>

\* ---------------------------------------------------------------- Next
Engine ==
    \/ background_updater_wake
    \/ background_updater_mass
    \/ background_updater_last_accessed
    \/ background_updater_resistance
    \/ background_updater_strain
    \/ background_updater_publish

Ingestion ==
    \/ \E h \in Handlers : api_process_prompt(h)
    \/ \E h \in Handlers : process_prompt_lookup(h)
    \/ \E h \in Handlers : process_prompt_apply(h)
    \/ \E h \in Handlers : process_prompt_strain(h)
    \/ \E h \in Handlers : api_process_prompt_publish(h)

Refresh ==
    \/ api_refresh
    \/ load_from_json_migrate

Reads ==
    \/ api_entities
    \/ api_graph_data

Connections ==
    \/ \E r \in Receivers : api_stream_updates(r)
    \/ \E r \in Receivers : generate_update(r)
    \/ \E r \in Receivers : generate_close(r)

Listening ==
    \/ \E r \in Listeners : api_stream_updates(r)
    \/ \E r \in Listeners : generate_update(r)
    \/ \E r \in Listeners : generate_heartbeat(r)
    \/ \E r \in Listeners : generate_close(r)

\* the store and its readers: the engine, ingestion and bulk reads
Next == ClockTick \/ Engine \/ Ingestion \/ api_entities

Spec == Init /\ [][Next]_vars

\* the fan-out of the live feed: the engine and ingestion put batches, up to
\* MaxReceivers generators take them.  A heartbeat leaves the queue as it is,
\* and these runs do not follow it.
NextFeed == ClockTick \/ Engine \/ Ingestion \/ Connections

SpecFeed == InitFeed /\ [][NextFeed]_vars

\* the live feed with its heartbeats, for up to MaxListeners generators
NextBeat == ClockTick \/ Engine \/ Ingestion \/ Listening

SpecBeat == InitFeed /\ [][NextBeat]_vars

\* two ingestion calls that may overlap, within the updater's first sleep
NextRace == ClockTick \/ Ingestion

SpecRace == InitRace /\ [][NextRace]_vars

\* one ingestion call of new words, beside the engine
NextIngest == ClockTick \/ Engine \/ Ingestion

SpecIngest == InitIngest /\ [][NextIngest]_vars

\* bulk reads with every filter, beside the engine and an ingestion call
NextRead == ClockTick \/ Engine \/ Ingestion \/ Reads

SpecRead == InitRead /\ [][NextRead]_vars

\* a refresh beside the engine, an ingestion call and unfiltered bulk reads
NextRefresh == ClockTick \/ Engine \/ Ingestion \/ Refresh \/ api_entities

SpecRefresh == InitRefresh /\ [][NextRefresh]_vars

\* one engine alone, over an entity with drawn access_count and last_accessed
NextTick == ClockTick \/ Engine

SpecTick == InitTick /\ [][NextTick]_vars

\* the engine alone, over a store with a record it cannot convert
SpecFault == InitFault /\ [][NextTick]_vars

\* the engine's batches and the generators that take them, with the history kept
NextContent == ClockTick \/ Engine \/ Connections

SpecContent == InitContent /\ [][NextContent]_vars

\* ingestion alone, over a store of six entities
SpecSlice == InitSlice /\ [][NextRace]_vars

\* the engine beside one ingestion call of new words, with the history kept
SpecVisit == InitVisit /\ [][NextIngest]_vars

\* ======================================================== properties

Batches == 1..pubCount

\* the generators that were running when batch s was put
Registered(s) == {r \in Receivers : statusAt[s][r] = "active"}

\* the positions at which batch s stands in what r has received
Got(r, s) == {k \in 1..Len(received[r]) : received[r][k].seq = s}

\* batch s is still waiting in the queue
Pending(s) == \E k \in 1..Len(update_queue) : update_queue[k].seq = s

\* C1: every receiver registered when a batch is published receives that
\* batch exactly once.  Stated on finite runs: once the bus holds the batch
\* no longer, each receiver that was registered at its publish and is still
\* connected has it exactly once in what it received.
C1_FanOut ==
    \A s \in Batches :
        ~Pending(s) =>
            \A r \in Registered(s) :
                status[r] = "active" => Cardinality(Got(r, s)) = 1

\* C2: no reader observes a node in a partially updated state.  Every node
\* a bulk read can return has resistance = amplitude, and no bulk read
\* returns a node that the engine has begun and not finished updating.
MidUpdate(id) ==
    /\ e_pc \in {"last_accessed", "resistance", "strain"}
    /\ entities[e_i].id = id

C2_NoPartialUpdate ==
    /\ \A k \in 1..Len(entities) :
          entities[k].node_resistance = entities[k].strain_amplitude
    /\ \A k \in 1..Len(lastRead) :
          /\ lastRead[k].node_resistance = lastRead[k].strain_amplitude
          /\ ~MidUpdate(lastRead[k].id)

\* C3: a receiver registered during the publishes of A and of B, A before B,
\* receives A and then B: it never holds B without holding A before it.
C3_PublishOrder ==
    \A r \in Receivers : \A a \in Batches : \A b \in Batches :
        (a < b /\ r \in Registered(a) /\ r \in Registered(b)) =>
            \A kb \in Got(r, b) : \E ka \in Got(r, a) : ka < kb

\* C4: a receiver never receives a batch that was published before it
\* subscribed: no replay of history.
C4_NoReplay ==
    \A r \in Receivers : \A s \in Batches :
        statusAt[s][r] = "none" => Got(r, s) = {}

\* C5: while no receiver has ever been registered, publishing queues
\* nothing: the bus holds no pending batch.
C5_PublishWithoutReceivers ==
    (\A r \in Receivers : status[r] = "none") => Len(update_queue) = 0

\* C6: a publish that follows an unsubscribe delivers nothing to the
\* receiver that left, and delivers the batch to every receiver that
\* remains registered (once the bus holds the batch no longer).
C6_Unsubscribe ==
    \A s \in Batches :
        (\E q \in Receivers : statusAt[s][q] = "closed") =>
            /\ \A q \in Receivers : statusAt[s][q] = "closed" => Got(q, s) = {}
            /\ ~Pending(s) =>
                  \A r \in Registered(s) : status[r] = "active" => Got(r, s) # {}

\* C7: a waiting receiver is never stuck, it can take a batch or, the queue
\* being empty at the timeout, emit a heartbeat (as long as the run follows
\* its heartbeats); and a step that emits a heartbeat starts with no batch
\* pending.
EmitsHeartbeat(r) ==
    /\ Len(received'[r]) = Len(received[r]) + 1
    /\ received'[r][Len(received'[r])].type = "heartbeat"

C8_PublishNeverBlocks ==
    /\ e_pc = "publish" => ENABLED background_updater_publish
    /\ \A h \in Handlers :
          p_pc[h] = "publish" => ENABLED api_process_prompt_publish(h)

\* a second batch was put behind one that a registered receiver never took
C8_Witness ==
    /\ Len(update_queue) >= 2
    /\ \E r \in Receivers :
          /\ status[r] = "active"
          /\ received[r] = <<>>
          /\ r \in Registered(update_queue[1].seq)

\* C9: the backlog held for a registered receiver is bounded: a receiver
\* that falls further behind than the bound is removed.
C9_BoundedBacklog ==
    \A r \in Receivers :
        status[r] = "active" => Len(update_queue) <= BacklogBound

\* C10: strain_amplitude >= 0 for every node, in the store and in every
\* answer of a bulk read (every node starts with an amplitude >= 0).
C10_AmplitudeNonNegative ==
    /\ \A k \in 1..Len(entities) : entities[k].strain_amplitude >= 0
    /\ \A k \in 1..Len(lastRead) : lastRead[k].strain_amplitude >= 0

\* N0 went from 0.50 through three decays, by ticks and by an ingestion
C10_Witness ==
    /\ p_left = 0 /\ p_pc[1] = "idle"
    /\ e_pc = "sleep"
    /\ entities[2].strain_amplitude = 47
    /\ entities[1].strain_amplitude = 0

\* the five attributes every node carries
FiveAttributes == {"strain_amplitude", "node_resistance", "gravitational_mass",
                   "access_count", "last_accessed"}

\* the stop words as the contract lists them
ListedStopWords == {"the", "a", "an", "and", "or", "but", "in", "on", "at", "to",
                    "for", "of", "with", "by"}

\* the tokens of the text handler h ingests
Tokens(h) == {p_words[h][k] : k \in 1..Len(p_words[h])}

\* the positions of the nodes of ents that token w names
Named(ents, w) == {k \in 1..Len(ents) : Lower(ents[k].name) = w}

\* handler h has left its loop over the words of a text
WordsDone(h) == p_pc[h] \in {"strain", "publish"} \/ (p_pc[h] = "idle" /\ p_words[h] # <<>>)

\* C11: ingestion looks a token up only if it is no stop word, and finds
\* no node exactly when no node bears the token as its name; it creates a
\* node only for such a token, once per text, and the node has access_count
\* 1, amplitude 0, resistance 0, mass 1.0 and last_accessed = the ingestion
\* time in the state in which it appears; and once the words of the first
\* text are through, every stop word names no node, every other token names
\* exactly one, and the store has grown by the number of distinct new tokens.
C11_OneNodePerNewToken ==
    /\ [][\A h \in Handlers : (p_pc[h] = "lookup" /\ p_pc'[h] = "apply") =>
            LET word == p_words[h][p_i[h]]
            IN /\ word \notin ListedStopWords
               /\ p_found'[h] = 0 <=> Named(entities, word) = {}]_vars
    /\ [][Len(entities') # Len(entities) =>
            \E h \in Handlers :
                /\ p_pc[h] = "apply" /\ p_found[h] = 0
                /\ Len(entities') = Len(entities) + 1
                /\ LET word == p_words[h][p_i[h]]
                       node == entities'[Len(entities')]
                   IN /\ \A k \in 1..(p_i[h] - 1) : p_words[h][k] # word
                      /\ node.name = word
                      /\ FiveAttributes \subseteq DOMAIN node
                      /\ node.access_count = 1
                      /\ node.strain_amplitude = 0
                      /\ node.node_resistance = 0
                      /\ node.gravitational_mass = 100
                      /\ node.last_accessed = p_time[h]]_vars
    /\ []((p_left = MaxPrompts - 1 /\ WordsDone(1)) =>
            /\ \A w \in Tokens(1) :
                  Cardinality(Named(entities, w)) =
                      IF w \in ListedStopWords THEN 0 ELSE 1
            /\ Len(entities) = 1 + Cardinality({w \in Tokens(1) :
                  w \notin ListedStopWords /\ Named(<<TheoremEntity>>, w) = {}}))

\* "the cat sat" has been ingested: nodes for cat and sat, none for the
C11_Witness ==
    /\ p_words[1] = <<"the", "cat", "sat">>
    /\ WordsDone(1)
    /\ Len(entities) = 3
    /\ entities[2].name = "cat" /\ entities[2].access_count = 1
    /\ entities[3].name = "sat" /\ entities[3].access_count = 1

\* the occurrences of token w in the texts of the handlers
RECURSIVE Occurrences(_, _)
Occurrences(hs, w) ==
    IF hs = {} THEN 0
    ELSE LET h == CHOOSE x \in hs : TRUE
         IN Cardinality({k \in 1..Len(p_words[h]) : p_words[h][k] = w})
                + Occurrences(hs \ {h}, w)

\* every handler has ingested one text and all are through
AllIngested ==
    /\ p_left = 0
    /\ \A h \in Handlers : p_pc[h] = "idle" /\ p_words[h] # <<>>

\* C12: no lost update.  When two ingestion calls have run, each on its
\* own handler, the access_count of Theorem is its initial 3 plus the
\* number of occurrences of its name in the two texts.
C12_NoLostUpdate ==
    AllIngested =>
        entities[1].access_count =
            TheoremEntity.access_count + Occurrences(Handlers, "theorem")

\* C13: no two nodes of the store share an id.
C13_UniqueIds ==
    \A j \in 1..Len(entities) : \A k \in 1..Len(entities) :
        j # k => entities[j].id # entities[k].id

\* C14: nothing is ever deleted.  Every id of the store is an id of the
\* store after any step.
C14_NothingDeleted ==
    [][\A k \in 1..Len(entities) :
          \E j \in 1..Len(entities') : entities'[j].id = entities[k].id]_vars

\* C15: every node a bulk read returns has all five attributes defined.
C15_FiveAttributes ==
    \A k \in 1..Len(lastRead) : FiveAttributes \subseteq DOMAIN lastRead[k]

\* C16: a bulk read increments the access_count of each node it returns
\* and sets that node's last_accessed to the time of the read.
C16_ReadCountsAccess ==
    [][\A k \in 1..Len(lastRead') :
          \E j \in 1..Len(entities) :
              /\ entities[j].id = lastRead'[k].id
              /\ entities'[j].access_count = entities[j].access_count + 1
              /\ entities'[j].last_accessed = now]_vars

\* C17, as the spec words it: every message a receiver is sent is of kind
\* update or heartbeat.
C17_UpdateOrHeartbeat ==
    \A r \in Receivers : \A k \in 1..Len(received[r]) :
        received[r][k].type \in {"update", "heartbeat"}

\* C17: every message a receiver is sent is of kind update, prompt_response
\* or heartbeat.
C17_FeedKinds ==
    \A r \in Receivers : \A k \in 1..Len(received[r]) :
        received[r][k].type \in {"update", "prompt_response", "heartbeat"}

\* a receiver was sent the batch of an ingestion call, and then a heartbeat
C17_Witness ==
    \E r \in Listeners :
        /\ Len(received[r]) >= 2
        /\ received[r][1].type = "prompt_response"
        /\ received[r][2].type = "heartbeat"

\* C18: the answer to GET /api/entities holds exactly the nodes whose
\* amplitude is strictly greater than the threshold supplied, 0 included,
\* and whose type is the type supplied.
C18_ThresholdFilter ==
    (lastQuery # <<>> /\ lastQuery[1] = "entities") =>
        LET strain_threshold == lastQuery[2]
            entity_type == lastQuery[3]
            Wanted(e) ==
                /\ strain_threshold = <<>> \/ e.strain_amplitude > strain_threshold[1]
                /\ entity_type = <<>> \/ e.entity_type = entity_type[1]
        IN /\ \A k \in 1..Len(entities) :
                  Wanted(entities[k]) <=>
                      \E j \in 1..Len(lastRead) : lastRead[j] = entities[k]
           /\ \A j \in 1..Len(lastRead) :
                  \E k \in 1..Len(entities) : lastRead[j] = entities[k]

\* C19: when a tick has gone through every node and nothing but the tick
\* has touched the store, every node has resistance = amplitude.
C19_ResistanceAfterTick ==
    (e_pc = "publish" /\ p_left = MaxPrompts /\ r_left = 0) =>
        \A k \in 1..Len(entities) :
            entities[k].node_resistance = entities[k].strain_amplitude

\* C20: the tick at time e_time gives a node with access_count n and
\* last_accessed t the mass n * (1 + 1/max(e_time - t, 1)), to the hundredth
\* the model keeps, which is 2n when e_time - t is below 1; and then sets
\* its last_accessed to e_time.
C20_MassAndLastAccessed ==
    /\ [][(e_pc = "mass" /\ e_pc' = "last_accessed") =>
            LET n == entities[e_i].access_count
                elapsed == e_time - entities[e_i].last_accessed
                mass == entities'[e_i].gravitational_mass
            IN IF elapsed < 1
               THEN mass = 2 * n * 100
               ELSE /\ mass * elapsed <= 100 * n * (elapsed + 1)
                    /\ mass * elapsed + n * elapsed >= 100 * n * (elapsed + 1)]_vars
    /\ [][(e_pc = "last_accessed" /\ e_pc' = "resistance") =>
            entities'[e_i].last_accessed = e_time]_vars

\* n = 3 and 10 s since the last access: the tick has set mass 3.30
C20_Witness ==
    /\ e_pc = "last_accessed"
    /\ e_time - entities[1].last_accessed = 10
    /\ entities[1].access_count = 3
    /\ entities[1].gravitational_mass = 330

\* C26: the mass of every node is greater than 0 in every reachable state,
\* whatever access_count >= 0 the node has.
C26_MassPositive ==
    \A k \in 1..Len(entities) :
        Has(entities[k], "gravitational_mass") => entities[k].gravitational_mass > 0

\* C29: no step lowers the last_accessed of a node.
C29_LastAccessedMonotone ==
    [][\A k \in 1..Len(entities) :
          (k <= Len(entities') /\ Has(entities[k], "last_accessed")) =>
              entities'[k].last_accessed >= entities[k].last_accessed]_vars

\* the tick's strain step on the node it is at takes the contradiction branch
TickContradicts ==
    /\ background_updater_strain
    /\ entities'[e_i].strain_amplitude - entities[e_i].strain_amplitude \in 10..19

\* the tick's strain step on the node it is at takes the decay branch
TickDecays ==
    /\ background_updater_strain
    /\ entities'[e_i].strain_amplitude = (entities[e_i].strain_amplitude * 98) \div 100

\* C21 as stated: at every node the tick comes to, amplitude 0 included, both
\* the contradiction branch and the decay branch are possible.
C21_BothBranchesAlways ==
    (e_pc = "strain" /\ e_old = 0) => (ENABLED TickContradicts /\ ENABLED TickDecays)

\* C21: the tick replaces the amplitude of a node whose amplitude is above 0
\* by amplitude + d with d in [0.1, 0.2) or by max(0, amplitude * 0.98), and
\* both are possible; it leaves an amplitude of 0 at 0.
C21_TickAmplitude ==
    /\ [][(e_pc = "strain" /\ e_old = 0 /\ e_i' = e_i + 1) =>
            LET amplitude == entities[e_i].strain_amplitude
                replaced == entities'[e_i].strain_amplitude
            IN IF amplitude > 0
               THEN \/ replaced - amplitude \in 10..19
                    \/ replaced = (amplitude * 98) \div 100 /\ replaced >= 0
               ELSE replaced = amplitude]_vars
    /\ [](( e_pc = "strain" /\ e_old = 0 /\ entities[e_i].strain_amplitude > 0) =>
            (ENABLED TickContradicts /\ ENABLED TickDecays))

\* a tick alone has been through both nodes: amplitude 0 is still 0, and
\* amplitude 0.50 has decayed to 0.49
C21_Witness ==
    /\ e_pc = "publish" /\ p_left = MaxPrompts
    /\ entities[1].strain_amplitude = 0
    /\ entities[2].strain_amplitude = 49

\* C24: a tick that completes publishes exactly one 'update' batch and an
\* ingestion call that completes exactly one 'prompt_response' batch; the
\* publish is the last step of the tick or call, after its writes to the
\* nodes, and nothing else publishes.
C24_OnePublishAfterMutations ==
    /\ [][(e_pc = "publish" /\ e_pc' = "sleep") =>
            /\ pubCount' = pubCount + 1
            /\ update_queue' = Append(update_queue, update_queue'[Len(update_queue')])
            /\ update_queue'[Len(update_queue')].type = "update"
            /\ update_queue'[Len(update_queue')].timestamp = e_time
            /\ entities' = entities]_vars
    /\ [][\A h \in Handlers : (p_pc[h] # "idle" /\ p_pc'[h] = "idle") =>
            /\ p_pc[h] = "publish"
            /\ pubCount' = pubCount + 1
            /\ update_queue' = Append(update_queue, update_queue'[Len(update_queue')])
            /\ update_queue'[Len(update_queue')].type = "prompt_response"
            /\ entities' = entities]_vars
    /\ [][pubCount' # pubCount =>
            \/ e_pc = "publish" /\ e_pc' = "sleep"
            \/ \E h \in Handlers : p_pc[h] = "publish" /\ p_pc'[h] = "idle"]_vars
    /\ [][(entities' # entities) =>
            \/ e_pc \in {"mass", "last_accessed", "resistance", "strain"} /\ e_pc' # e_pc
            \/ \E h \in Handlers :
                  /\ p_pc[h] \in {"apply", "strain"}
                  /\ <<p_pc[h], p_i[h]>> # <<p_pc'[h], p_i'[h]>>]_vars

\* one tick and one ingestion call have completed: two batches, one of each
C24_Witness ==
    /\ pubCount = 2 /\ e_pc = "sleep" /\ p_pc[1] = "idle" /\ p_left = MaxPrompts - 1
    /\ \E j, k \in 1..Len(update_queue) :
          update_queue[j].type = "update" /\ update_queue[k].type = "prompt_response"

\* the ids of the nodes, in the order of the list
Ids(ents) == [k \in 1..Len(ents) |-> ents[k].id]

\* a step of the updater thread
EngineStep == <<e_pc, e_i, e_time, e_wake>>' # <<e_pc, e_i, e_time, e_wake>>

\* C27: no step of an engine tick changes the ids of the nodes or anything
\* in the list of edges.
C27_TickFrame ==
    [][EngineStep => (Ids(entities') = Ids(entities) /\ relationships' = relationships)]_vars

\* a tick has been through a list that ingestion had made longer, and the
\* edge is still the one that was loaded
C27_Witness ==
    /\ e_pc = "publish" /\ Len(entities) >= 2
    /\ entities[1].last_accessed = e_time
    /\ Len(relationships) = 1 /\ relationships[1].to = entities[1].id

\* C28: the access_count of a node changes only in the step of an ingestion
\* call that has found the node by name; no step of a tick changes it.
C28_OnlyIngestionChangesCount ==
    [][\A k \in 1..Len(entities) :
          ( /\ k <= Len(entities')
            /\ entities'[k].id = entities[k].id
            /\ Has(entities[k], "access_count")
            /\ entities'[k].access_count # entities[k].access_count ) =>
          \E h \in Handlers :
              p_pc[h] = "apply" /\ p_pc'[h] # "apply" /\ p_found[h] = k]_vars

\* C22: the nodes a tick visits are those of the list as it was when the
\* tick began: the tick never comes to a node that was added after its start.
C22_VisitsStartSnapshot ==
    (e_pc \in {"mass", "last_accessed", "resistance", "strain"} /\ e_old = 0) =>
        e_i <= e_start

\* a step of the ingestion call that handler h serves
IngestionStep(h) == <<p_pc[h], p_i[h]>>' # <<p_pc[h], p_i[h]>>

\* entity without the attributes named in keys
Except(entity, keys) == [a \in (DOMAIN entity) \ keys |-> entity[a]]

\* C30 as stated: no step of an ingestion call changes the amplitude, the
\* resistance or the mass of a node that was there before the step, nor the
\* list of edges.
C30_IngestionFrame ==
    [][\A h \in Handlers : IngestionStep(h) =>
          /\ relationships' = relationships
          /\ \A k \in 1..Len(entities) :
                /\ entities'[k].strain_amplitude = entities[k].strain_amplitude
                /\ entities'[k].node_resistance = entities[k].node_resistance
                /\ entities'[k].gravitational_mass = entities[k].gravitational_mass]_vars

\* C30: a step of an ingestion call changes, of the nodes that were there
\* before it, nothing but access_count and last_accessed of the node whose
\* name is the token at hand, and the amplitude of one of the first five
\* nodes of the list, which becomes amplitude + d with d in [0.1, 0.2) or
\* max(0, amplitude * 0.98); it leaves the list of edges as it was.
C30_IngestionFrameButStrain ==
    [][\A h \in Handlers : IngestionStep(h) =>
          /\ relationships' = relationships
          /\ Len(entities') >= Len(entities)
          /\ \A k \in 1..Len(entities) :
                \/ entities'[k] = entities[k]
                \/ /\ p_pc[h] = "apply"
                   /\ Lower(entities[k].name) = p_words[h][p_i[h]]
                   /\ Except(entities'[k], {"access_count", "last_accessed"})
                        = Except(entities[k], {"access_count", "last_accessed"})
                \/ /\ p_pc[h] = "strain" /\ k = p_i[h] /\ k <= 5
                   /\ Except(entities'[k], {"strain_amplitude"})
                        = Except(entities[k], {"strain_amplitude"})
                   /\ \/ entities'[k].strain_amplitude
                            - entities[k].strain_amplitude \in 10..19
                      \/ entities'[k].strain_amplitude
                            = (entities[k].strain_amplitude * 98) \div 100]_vars

\* a call for 'The Einstein' has ended: the sixth node is counted once more,
\* the second node's amplitude has gone from 0.50 to 0.65, and the sixth
\* node's amplitude, resistance and mass are as they were
C30_Witness ==
    /\ p_left = MaxPrompts - 1 /\ p_pc[1] = "publish"
    /\ entities[6].access_count = 2
    /\ entities[2].strain_amplitude = 65
    /\ entities[6].strain_amplitude = 30 /\ entities[6].node_resistance = 30
    /\ entities[6].gravitational_mass = 100

\* C23: the step of a tick at a node whose update raises does not end the
\* pass: the tick goes on to the other nodes and to its publish.
C23_FailureDoesNotAbort ==
    [][(e_pc = "mass" /\ e_old = 0 /\ Raises(entities[e_i])) =>
            ~(background_updater_mass /\ e_pc' = "sleep")]_vars

\* C25: the entities an 'update' message carries to a receiver are the
\* entities as they were when its batch was put on the queue.
C25_ContentAsPublished ==
    \A r \in Receivers : \A k \in 1..Len(received[r]) :
        received[r][k].type = "update" =>
            received[r][k].entities = received[r][k].snapshot

====
